---- MODULE Spec2Model ----
(***************************************************************************)
(* A model of the LeelaQueenOdds leaderboard updater in its two variants:  *)
(* app.py (Flask process with a background update thread) and updater.py   *)
(* (a stand-alone update() run).  The specifications of the module:       *)
(*   Spec        whole update cycles of either program over an upstream    *)
(*               game history, with persistence failures and aborts;       *)
(*   SpecFetch   the page loop of either fetcher, one HTTP response a step;*)
(*   SpecLock    the control flow of concurrent cycles around the file     *)
(*               lock and the in-process mutex;                            *)
(*   SpecSched   SpecLock with the update thread kept running;             *)
(*   SpecSkip    update cycles of app.py next to another lock holder;      *)
(*   SpecReplay  the rating replay of either program, one game a step;     *)
(*   SpecRebuild the rebuild of the player records from a stored Archive;  *)
(*   SpecFinish  a replay with time controls followed to the saved         *)
(*               leaderboard.                                              *)
(* Time is in scaled milliseconds, a page holds PageSize games instead of  *)
(* 300: the scaled values are the bounds below.                            *)
(***************************************************************************)
EXTENDS Integers, Sequences, FiniteSets, TLC

\* ---------------------------------------------------------------- bounds
\* Number of games the upstream may hold.
NumGames == 3
\* Last instant of the (scaled) clock.
MaxTime == 4
\* max=300 of the games request, scaled.
PageSize == 2
\* CHUNK_SIZE (30 minutes in ms), scaled.
CHUNK_SIZE == 2
\* REFETCH_DELAY (3 hours in ms), scaled.
REFETCH_DELAY == 1
\* RATING_START_TIMESTAMP (2025-02-24 in ms), scaled: the first instant.
RATING_START_TIMESTAMP == 1

\* ------------------------------------------------------ program constants
\* until=None of fetch_games / fetch_games_chunk.
NoUntil == -1
\* A 429 without a Retry-After header.
NoRetryAfter == -1
\* Retry-After default of app.py's fetch_games, seconds.
DefaultRetryAfter == 10
\* The sleep after every page, seconds.
PageSleep == 1
\* Sleeps of updater.py's fetch_games_chunk, seconds.
RateLimitSleep == 60
ErrorSleep == 10
RequestErrorSleep == 5

Ids == 1..NumGames
Time == RATING_START_TIMESTAMP..MaxTime

VARIABLES
    \* the upstream and the clock
    createdAt,        \* createdAt of every upstream game
    untilInclusive,   \* whether the upstream serves createdAt = until
    now,              \* wall clock
    \* update cycles (Spec)
    prog,             \* "app" or "upd": the program that runs
    archive,          \* the Archive in memory: archive["games"] as ids
    lastFetch,        \* metadata.last_fetch / last_game_timestamp in memory
    archiveFile,      \* game_archive.json
    lbFile,           \* leaderboard.json: its checkpoint
    new_games,        \* the batch the last cycle fetched
    added_count,      \* added_count / new_added of the last cycle
    fetchedEver,      \* history: every game a fetch returned to a cycle
    rated,            \* history, app.py: the games the player records in
                      \* memory were computed from
    lastOp,           \* history: the step taken last
    \* page loop (SpecFetch)
    fprog,            \* "app": fetch_games, "upd": fetch_all_games_range
    fpc,              \* "request": a request is out; "done"; "raised"
    flower, fupper,   \* the arguments: since / lower_bound, until / upper_bound
    fsince,           \* params["since"] of fetch_games; pointer of the range loop
    fetched_games,    \* fetched_games / all_games
    lastStatus,       \* how the last request was answered
    slept,            \* seconds of the last time.sleep
    retryAfter,       \* Retry-After of the last 429
    omitted,          \* history: games of a failed request's page that were dropped
    sawError,         \* history: a request failed other than by a 429
    sawThrottle,      \* history: a request was answered 429
    \* locking (SpecLock)
    pc, flockHolder, mutexHolder, exitKind,
    \* replay (SpecReplay)
    rprog,            \* "app" or "upd": the program whose replay runs
    players,          \* new_leaderboard / players: the table being rebuilt
    malus_date,       \* malus_date of update()
    lastTs,           \* createdAt of the game replayed last
    replayed,         \* number of games replayed
    game,             \* history: the game replayed last and what was used for it
    appearance,       \* the keys of the replay's table in insertion order
    ended,            \* "no", or how the cycle ended: "saved" or "raised"
    lbOut,            \* the leaderboard dict the cycle saved, key by key
    \* rebuild of the leaderboard (SpecRebuild)
    bprog,            \* "app" or "upd": the program that rebuilds
    human,            \* the human player of every game
    storedGames,      \* games of the Archive file
    archiveGames,     \* archive["games"] of the last cycle
    filtered_games,   \* the games the last cycle replayed, in replay order
    leaderboard       \* the player records the last cycle saved

envVars == <<createdAt, untilInclusive, now>>
cycVars == <<prog, archive, lastFetch, archiveFile, lbFile, new_games,
             added_count, fetchedEver, rated, lastOp>>
fetVars == <<fprog, fpc, flower, fupper, fsince, fetched_games, lastStatus,
             slept, retryAfter, omitted, sawError, sawThrottle>>
lockVars == <<pc, flockHolder, mutexHolder, exitKind>>
repVars == <<rprog, players, malus_date, lastTs, replayed, game,
             appearance, ended, lbOut>>
rebVars == <<bprog, human, storedGames, archiveGames, filtered_games,
             leaderboard>>
vars == <<envVars, cycVars, fetVars, lockVars, repVars, rebVars>>

\* ------------------------------------------------------------- helpers
Min(a, b) == IF a < b THEN a ELSE b
Max(a, b) == IF a > b THEN a ELSE b
Range(s) == {s[i] : i \in 1..Len(s)}
Take(s, n) == SubSeq(s, 1, Min(n, Len(s)))
NoDup(s) == \A i, j \in 1..Len(s) : s[i] = s[j] => i = j

\* --------------------------------------------------------- the upstream
\* The games request: games of the bot with createdAt from `since` on, up
\* to `until` when given, that exist at the time of the request.
InWindow(g, since, until) ==
    /\ createdAt[g] >= since
    /\ createdAt[g] <= now
    /\ \/ until = NoUntil
       \/ IF untilInclusive THEN createdAt[g] <= until
                            ELSE createdAt[g] < until

Window(since, until) == {g \in Ids : InWindow(g, since, until)}

\* Ascending createdAt order; games of one instant in the order of their ids.
Earlier(g, h) ==
    \/ createdAt[g] < createdAt[h]
    \/ createdAt[g] = createdAt[h] /\ g <= h

RECURSIVE Ascending(_)
Ascending(S) ==
    IF S = {} THEN <<>>
    ELSE LET first == CHOOSE g \in S : \A h \in S : Earlier(g, h)
         IN  <<first>> \o Ascending(S \ {first})

\* One answered page: at most max=300 games, oldest first.
Page(since, until) == Take(Ascending(Window(since, until)), PageSize)

\* ------------------------------------------------- app.py: fetch_games
\* The page loop of fetch_games as a function of the upstream.  `reqs`
\* counts the requests issued so far; the request numbered `fault` (0: none)
\* is answered with a non-success status other than 429, on which the loop
\* breaks and returns what it has.  A 429 repeats the request unchanged and
\* leaves the result as it is (SpecFetch has it as a step).
RECURSIVE FetchGamesLoop(_, _, _, _, _)
FetchGamesLoop(since, until, fetched, reqs, fault) ==
    IF reqs + 1 = fault THEN [games |-> fetched, reqs |-> reqs + 1]
    ELSE LET batch == Page(since, until)
             all == fetched \o batch
             next == createdAt[batch[Len(batch)]] + 1
         IN  IF batch = <<>> THEN [games |-> fetched, reqs |-> reqs + 1]
             ELSE IF Len(batch) < PageSize THEN [games |-> all, reqs |-> reqs + 1]
             ELSE IF until # NoUntil /\ next > until
                  THEN [games |-> all, reqs |-> reqs + 1]
             ELSE FetchGamesLoop(next, until, all, reqs + 1, fault)

fetch_games(since, until, reqs, fault) ==
    FetchGamesLoop(since, until, <<>>, reqs, fault)

\* The cold-start backfill of update_leaderboard_func: one fetch_games per
\* chunk [start_ts, start_ts + CHUNK_SIZE - 1].
RECURSIVE FullUpdateLoop(_, _, _, _)
FullUpdateLoop(start_ts, all_new_games, reqs, fault) ==
    IF start_ts > now THEN [games |-> all_new_games, reqs |-> reqs]
    ELSE LET chunk_end == Min(start_ts + CHUNK_SIZE - 1, now)
             games_chunk == fetch_games(start_ts, chunk_end, reqs, fault)
         IN  FullUpdateLoop(chunk_end + 1, all_new_games \o games_chunk.games,
                            games_chunk.reqs, fault)

\* new_games of update_leaderboard_func.
AppNewGames(last_fetch, fault) ==
    IF last_fetch = 0
    THEN FullUpdateLoop(RATING_START_TIMESTAMP, <<>>, 0, fault).games
    ELSE fetch_games(last_fetch, NoUntil, 0, fault).games

\* ------------------------------------ updater.py: fetch_all_games_range
\* fetch_games_chunk answers one page; it repeats the request until the
\* status is 200.  On the request numbered `fault` (0: none) the body stops
\* after `keep` lines (the exception of iter_lines is caught and the lines
\* read so far are returned).
fetch_games_chunk(since, until, reqs, fault, keep) ==
    IF reqs + 1 = fault THEN Take(Page(since, until), keep)
    ELSE Page(since, until)

RECURSIVE FetchAllLoop(_, _, _, _, _, _)
FetchAllLoop(pointer, upper_bound, all_games, reqs, fault, keep) ==
    IF ~(pointer < upper_bound) THEN [games |-> all_games, reqs |-> reqs]
    ELSE LET next_until == Min(pointer + CHUNK_SIZE, upper_bound)
             chunk_games == fetch_games_chunk(pointer, next_until, reqs, fault, keep)
             last_created == createdAt[chunk_games[Len(chunk_games)]]
         IN  IF chunk_games # <<>> /\ Len(chunk_games) = PageSize
             THEN FetchAllLoop(IF last_created > pointer THEN last_created
                                                        ELSE next_until,
                               upper_bound, all_games \o chunk_games,
                               reqs + 1, fault, keep)
             ELSE FetchAllLoop(next_until, upper_bound, all_games \o chunk_games,
                               reqs + 1, fault, keep)

fetch_all_games_range(lower_bound, upper_bound, reqs, fault, keep) ==
    FetchAllLoop(lower_bound, upper_bound, <<>>, reqs, fault, keep)

\* new_games of update(): the stable range, then the recent range.
UpdNewGames(last_fetch, safe_cutoff, current_time, fault, keep) ==
    LET new_games_stable == fetch_all_games_range(last_fetch, safe_cutoff, 0,
                                                  fault, keep)
        new_games_recent == fetch_all_games_range(safe_cutoff, current_time,
                                                  new_games_stable.reqs, fault, keep)
    IN  new_games_stable.games \o new_games_recent.games

\* ------------------------------------------------------- archive merge
\* The merge loop of both programs: existing_ids is taken once, before the
\* loop, and every game of the batch whose id is not in it is appended.
\* A merge that does not look at existing_ids.
MergeGamesNoCheck(games, batch) ==
    [games |-> games \o batch, added |-> Len(batch)]

MergeGames(games, batch) ==
    LET existing_ids == Range(games)
        appended == SelectSeq(batch, LAMBDA g : g \notin existing_ids)
    IN  [games |-> games \o appended, added |-> Len(appended)]

UpdMergeGames(games, batch) ==
    LET existing_ids == Range(games)
        appended == SelectSeq(batch, LAMBDA g : g \notin existing_ids)
    IN  [games |-> games \o appended, added |-> Len(appended)]

\* A max_ts that falls back to 0 instead of last_fetch.
MaxTsNoFallback(batch, last_fetch) ==
    IF batch # <<>>
    THEN CHOOSE t \in {createdAt[g] : g \in Range(batch)} :
             \A g \in Range(batch) : createdAt[g] <= t
    ELSE 0

\* max_ts of update_leaderboard_func.
MaxTs(batch, last_fetch) ==
    IF batch # <<>>
    THEN CHOOSE t \in {createdAt[g] : g \in Range(batch)} :
             \A g \in Range(batch) : createdAt[g] <= t
    ELSE last_fetch

\* latest_stable_timestamp of update(): the loop over new_games.
RECURSIVE LatestStable(_, _, _)
LatestStable(batch, latest_stable_timestamp, safe_cutoff) ==
    IF batch = <<>> THEN latest_stable_timestamp
    ELSE LET g == Head(batch)
         IN  LatestStable(Tail(batch),
                 IF createdAt[g] <= safe_cutoff /\ createdAt[g] > latest_stable_timestamp
                 THEN createdAt[g] ELSE latest_stable_timestamp,
                 safe_cutoff)

\* --------------------------------------------------------- persistence
AbsentArchive == [state |-> "absent", games |-> <<>>]
AbsentLeaderboard == [state |-> "absent", cp |-> 0, rated |-> {}]
SavedArchive(games) == [state |-> "ok", games |-> games]
\* The file holds the checkpoint and the player records; of the records of
\* app.py the model keeps the games they were computed from, of those of
\* update(), whose process ends with the run, nothing.
SavedLeaderboard(cp, games) == [state |-> "ok", cp |-> cp, rated |-> Range(games)]
\* A file opened with "w" whose dump did not complete.
PartialArchive == [state |-> "partial", games |-> <<>>]
PartialLeaderboard == [state |-> "partial", cp |-> 0, rated |-> {}]

\* app.py
load_archive == IF archiveFile.state = "ok" THEN archiveFile.games ELSE <<>>
load_leaderboard == IF lbFile.state = "ok" THEN lbFile.cp ELSE 0
\* The games behind the player records load_leaderboard returns.
LoadedRecords == IF lbFile.state = "ok" THEN lbFile.rated ELSE {}

\* updater.py: load_json with its default.
UpdLoadArchive == IF archiveFile.state = "ok" THEN archiveFile.games ELSE <<>>
UpdLoadCheckpoint ==
    IF lbFile.state = "ok" THEN lbFile.cp ELSE RATING_START_TIMESTAMP

\* ------------------------------------------- values of the idle parts
CycOff ==
    /\ prog = "none" /\ archive = <<>> /\ lastFetch = 0
    /\ archiveFile = AbsentArchive /\ lbFile = AbsentLeaderboard
    /\ new_games = <<>> /\ added_count = 0 /\ fetchedEver = {} /\ rated = {}
    /\ lastOp = "off"
FetOff ==
    /\ fprog = "none" /\ fpc = "off" /\ flower = 0 /\ fupper = NoUntil
    /\ fsince = 0 /\ fetched_games = <<>> /\ lastStatus = "none" /\ slept = 0
    /\ retryAfter = NoRetryAfter /\ omitted = {}
    /\ sawError = FALSE /\ sawThrottle = FALSE
LockOff ==
    /\ pc = <<>> /\ flockHolder = "none" /\ mutexHolder = "none"
    /\ exitKind = <<>>

RepOff ==
    /\ rprog = "none" /\ players = <<>> /\ malus_date = 0 /\ lastTs = 0
    /\ replayed = 0 /\ game = <<>>
    /\ appearance = <<>> /\ ended = "off" /\ lbOut = <<>>

RebOff ==
    /\ bprog = "none" /\ human = <<>> /\ storedGames = <<>>
    /\ archiveGames = <<>>
    /\ filtered_games = <<>> /\ leaderboard = <<>>

\* Games are numbered in the order of their creation.
Histories == {c \in [Ids -> Time] : \A g, h \in Ids : g <= h => c[g] <= c[h]}

\* ======================================================== update cycles
\* The request of a cycle that fails, if any (0: none).
MaxFault == 2
Faults == 0..MaxFault
\* The lines a cut body keeps.
Keeps == 0..(PageSize - 1)
\* A run of update(): no body is cut, or that of one request is.
Cuts == {<<0, 0>>} \cup ((1..MaxFault) \X Keeps)

\* How far update_leaderboard_func gets: an exception of requests.get, of
\* save_archive (open refused, or the dump cut short), of the replay, of
\* save_leaderboard's open, of save_leaderboard's dump, or none.
AppEnds == {"fetch_raised", "archive_open_failed", "archive_write_failed",
            "replay_raised", "leaderboard_open_failed",
            "leaderboard_write_failed", "ok"}
Merged(end) == end # "fetch_raised"
ArchiveSaved(end) == end \in {"replay_raised", "leaderboard_open_failed",
                              "leaderboard_write_failed", "ok"}
\* The replay ran to its end and `leaderboard = sorted_lb` was executed
\* (line 419).
Recomputed(end) == end \in {"leaderboard_open_failed",
                            "leaderboard_write_failed", "ok"}

\* app.py: one call of update_leaderboard_func that got the update lock.
update_leaderboard_func ==
    /\ prog = "app"
    /\ \E fault \in Faults :
       \E batch \in {AppNewGames(lastFetch, fault)} :
       \E merged \in {MergeGames(archive, batch)},
          max_ts \in {MaxTs(batch, lastFetch)}, end \in AppEnds :
            /\ archive' = IF Merged(end) THEN merged.games ELSE archive
            /\ new_games' = IF Merged(end) THEN batch ELSE new_games
            /\ added_count' = IF Merged(end) THEN merged.added ELSE added_count
            /\ fetchedEver' = IF Merged(end) THEN fetchedEver \cup Range(batch)
                                             ELSE fetchedEver
            /\ archiveFile' = IF ArchiveSaved(end) THEN SavedArchive(merged.games)
                              ELSE IF end = "archive_write_failed" THEN PartialArchive
                              ELSE archiveFile
            /\ lastFetch' = IF ArchiveSaved(end) THEN max_ts ELSE lastFetch
            /\ rated' = IF Recomputed(end) THEN Range(merged.games) ELSE rated
            /\ lbFile' = IF end = "ok" THEN SavedLeaderboard(max_ts, merged.games)
                         ELSE IF end = "leaderboard_write_failed" THEN PartialLeaderboard
                         ELSE lbFile
            /\ lastOp' = IF Merged(end) THEN "update_leaderboard_func"
                                        ELSE "fetch_raised"
    /\ UNCHANGED <<envVars, repVars, rebVars, prog, fetVars, lockVars>>

\* app.py: the process starts again and loads both files (lines 78-79); a
\* file that does not decode stops the start.
AppRestart ==
    /\ prog = "app"
    /\ archiveFile.state # "partial" /\ lbFile.state # "partial"
    /\ archive' = load_archive
    /\ lastFetch' = load_leaderboard
    /\ rated' = LoadedRecords
    /\ new_games' = <<>> /\ added_count' = 0
    /\ lastOp' = "restart"
    /\ UNCHANGED <<envVars, repVars, rebVars, prog, archiveFile, lbFile, fetchedEver, fetVars, lockVars>>

\* updater.py: atomic_save_json writes the file whole or, logging the
\* exception, leaves it as it was.
atomic_save_json(file, data, saved) == IF saved THEN data ELSE file

\* updater.py: one run of update().  Both saves may fail without stopping
\* the run; an exception of the replay ends it before the leaderboard save,
\* which leaves the leaderboard file as a failed save does.
update ==
    /\ prog = "upd"
    /\ \E cut \in Cuts :
       \E games \in {UpdLoadArchive}, last_fetch \in {UpdLoadCheckpoint},
          safe_cutoff \in {now - REFETCH_DELAY} :
       \E batch \in {UpdNewGames(last_fetch, safe_cutoff, now, cut[1], cut[2])} :
       \E merged \in {UpdMergeGames(games, batch)},
          latest_stable_timestamp \in {LatestStable(batch, last_fetch, safe_cutoff)},
          archive_saved \in BOOLEAN, leaderboard_saved \in BOOLEAN :
            /\ archive' = merged.games
            /\ new_games' = batch
            /\ added_count' = merged.added
            /\ fetchedEver' = fetchedEver \cup Range(batch)
            /\ archiveFile' = atomic_save_json(archiveFile,
                                  SavedArchive(merged.games), archive_saved)
            /\ lastFetch' = latest_stable_timestamp
            /\ rated' = {}
            /\ lbFile' = atomic_save_json(lbFile,
                             SavedLeaderboard(latest_stable_timestamp, <<>>),
                             leaderboard_saved)
            /\ lastOp' = "update"
    /\ UNCHANGED <<envVars, repVars, rebVars, prog, fetVars, lockVars>>

\* The clock advances; games created by then become visible upstream.
Tick ==
    /\ prog \in {"app", "upd"}
    /\ now < MaxTime
    /\ now' = now + 1
    /\ lastOp' = "tick"
    /\ UNCHANGED <<createdAt, untilInclusive, prog, archive, lastFetch,
                   archiveFile, lbFile, new_games, added_count, fetchedEver,
                   rated, fetVars, lockVars, repVars, rebVars>>

Init ==
    /\ createdAt \in Histories
    /\ untilInclusive \in BOOLEAN
    /\ now = RATING_START_TIMESTAMP + REFETCH_DELAY
    /\ prog \in {"app", "upd"}
    /\ archiveFile = AbsentArchive /\ lbFile = AbsentLeaderboard
    /\ archive = <<>>
    /\ lastFetch = IF prog = "app" THEN load_leaderboard ELSE UpdLoadCheckpoint
    /\ new_games = <<>> /\ added_count = 0 /\ fetchedEver = {} /\ rated = {}
    /\ lastOp = "init"
    /\ FetOff /\ LockOff /\ RepOff /\ RebOff

Next == update_leaderboard_func \/ AppRestart \/ update \/ Tick

Spec == Init /\ [][Next]_vars

\* ----------------------------------------------- claims on update cycles
\* A step of a cycle that got past its fetch.
CycleStep == lastOp' \in {"update_leaderboard_func", "update"}
\* The Archive and the checkpoint a cycle starts from: app.py keeps them in
\* memory, update() loads them from the files.
ArchiveBefore == IF prog = "app" THEN archive ELSE UpdLoadArchive
CheckpointBefore == IF prog = "app" THEN lastFetch ELSE UpdLoadCheckpoint
PersistedArchive == IF archiveFile.state = "ok" THEN archiveFile.games ELSE <<>>

\* C1: after any sequence of update cycles no two entries of the Archive,
\* in memory or in the file, share an id.
C1_NoDuplicateIds == NoDup(archive) /\ NoDup(PersistedArchive)

\* C2: a cycle whose batch holds only ids that are already in the Archive
\* leaves the Archive as it was and counts 0 added games.
C2_MergeIdempotent ==
    [][(CycleStep /\ Range(new_games') \subseteq Range(ArchiveBefore))
        => (archive' = ArchiveBefore /\ added_count' = 0)]_vars
\* A cycle has fetched games again and added none of them.
C2_Witness ==
    /\ new_games # <<>> /\ added_count = 0
    /\ Range(new_games) \subseteq Range(archive)

C4_CheckpointWithinCutoff ==
    /\ lastFetch <= now - REFETCH_DELAY
    /\ lbFile.state = "ok" => lbFile.cp <= now - REFETCH_DELAY

\* C7: the persisted checkpoint is never past a fetched game that is not in
\* the persisted Archive: every game a cycle fetched with createdAt before
\* the persisted checkpoint (a later cycle fetches from the checkpoint on and
\* does not request it again) is in the persisted Archive.
C7_CheckpointCoversArchive ==
    lbFile.state = "ok" =>
        \A g \in fetchedEver :
            createdAt[g] < lbFile.cp => g \in Range(PersistedArchive)

\* ============================================================ page loop
\* One step is one answer to the request that is out.  The upstream holds
\* every game (now = MaxTime) and answers 200 with the page, 429 with or
\* without Retry-After, another status, no answer at all (requests.get
\* raises), or a 200 whose body breaks off.
RetryAfterValues == {NoRetryAfter, 2, 120}

\* A page loop that goes on after a short page and stops at an empty one.
AppAfterPageUntilEmpty(batch) ==
    IF batch = <<>>
    THEN /\ fpc' = "done"
         /\ UNCHANGED <<fetched_games, fsince, slept>>
    ELSE /\ fetched_games' = fetched_games \o batch
         /\ fsince' = createdAt[batch[Len(batch)]] + 1
         /\ slept' = PageSleep
         /\ fpc' = "request"

\* What fetch_games does with a decoded page (lines 235-244).
AppAfterPage(batch) ==
    IF batch = <<>>
    THEN /\ fpc' = "done"
         /\ UNCHANGED <<fetched_games, fsince, slept>>
    ELSE /\ fetched_games' = fetched_games \o batch
         /\ fsince' = createdAt[batch[Len(batch)]] + 1
         /\ slept' = PageSleep
         /\ fpc' = IF Len(batch) < PageSize THEN "done"
                   ELSE IF fupper # NoUntil /\ fsince' > fupper THEN "done"
                   ELSE "request"

\* fetch_games: status 200.
AppFetch200 ==
    /\ fprog = "app" /\ fpc = "request"
    /\ AppAfterPage(Page(fsince, fupper))
    /\ lastStatus' = "200"
    /\ UNCHANGED <<envVars, repVars, rebVars, cycVars, lockVars, fprog, flower, fupper,
                   retryAfter, omitted, sawError, sawThrottle>>

\* fetch_games: status 429 (lines 217-221).
AppFetch429 ==
    /\ fprog = "app" /\ fpc = "request"
    /\ \E h \in RetryAfterValues :
        /\ retryAfter' = h
        /\ slept' = IF h = NoRetryAfter THEN DefaultRetryAfter ELSE h
    /\ lastStatus' = "429" /\ sawThrottle' = TRUE
    /\ UNCHANGED <<envVars, repVars, rebVars, cycVars, lockVars, fprog, fpc, flower, fupper,
                   fsince, fetched_games, omitted, sawError>>

\* fetch_games: another status (lines 222-224): the loop breaks.
AppFetchError ==
    /\ fprog = "app" /\ fpc = "request"
    /\ fpc' = "done"
    /\ lastStatus' = "error" /\ sawError' = TRUE
    /\ omitted' = omitted \cup Range(Page(fsince, fupper))
    /\ UNCHANGED <<envVars, repVars, rebVars, cycVars, lockVars, fprog, flower, fupper, fsince,
                   fetched_games, slept, retryAfter, sawThrottle>>

\* fetch_games: requests.get or iter_lines raises; nothing catches it.
AppFetchRaises ==
    /\ fprog = "app" /\ fpc = "request"
    /\ fpc' = "raised"
    /\ lastStatus' = "failed" /\ sawError' = TRUE
    /\ omitted' = omitted \cup Range(Page(fsince, fupper))
    /\ UNCHANGED <<envVars, repVars, rebVars, cycVars, lockVars, fprog, flower, fupper, fsince,
                   fetched_games, slept, retryAfter, sawThrottle>>

\* What fetch_all_games_range does with the chunk fetch_games_chunk
\* returned for [pointer, next_until] (lines 80-90).
UpdAfterChunk(chunk_games, next_until) ==
    LET last_created == createdAt[chunk_games[Len(chunk_games)]]
        pointer == IF chunk_games # <<>> /\ Len(chunk_games) = PageSize
                   THEN (IF last_created > fsince THEN last_created ELSE next_until)
                   ELSE next_until
    IN  /\ fetched_games' = fetched_games \o chunk_games
        /\ fsince' = pointer
        /\ slept' = PageSleep
        /\ fpc' = IF pointer < fupper THEN "request" ELSE "done"

NextUntil == Min(fsince + CHUNK_SIZE, fupper)

\* fetch_games_chunk: status 200, the body read to its end.
UpdFetch200 ==
    /\ fprog = "upd" /\ fpc = "request"
    /\ UpdAfterChunk(Page(fsince, NextUntil), NextUntil)
    /\ lastStatus' = "200"
    /\ UNCHANGED <<envVars, repVars, rebVars, cycVars, lockVars, fprog, flower, fupper,
                   retryAfter, omitted, sawError, sawThrottle>>

\* fetch_games_chunk: status 200, iter_lines raises after `keep` lines
\* (lines 55-64): the lines read are the chunk.
UpdFetchCut ==
    /\ fprog = "upd" /\ fpc = "request"
    /\ \E keep \in Keeps :
        /\ keep < Len(Page(fsince, NextUntil))
        /\ UpdAfterChunk(Take(Page(fsince, NextUntil), keep), NextUntil)
        /\ omitted' = omitted \cup
              (Range(Page(fsince, NextUntil)) \ Range(Take(Page(fsince, NextUntil), keep)))
    /\ lastStatus' = "cut" /\ sawError' = TRUE
    /\ UNCHANGED <<envVars, repVars, rebVars, cycVars, lockVars, fprog, flower, fupper,
                   retryAfter, sawThrottle>>

\* fetch_games_chunk: status 429 (lines 46-49): sleep, the same call again.
UpdFetch429 ==
    /\ fprog = "upd" /\ fpc = "request"
    /\ \E h \in RetryAfterValues : retryAfter' = h
    /\ slept' = RateLimitSleep
    /\ lastStatus' = "429" /\ sawThrottle' = TRUE
    /\ UNCHANGED <<envVars, repVars, rebVars, cycVars, lockVars, fprog, fpc, flower, fupper,
                   fsince, fetched_games, omitted, sawError>>

\* fetch_games_chunk: another status (lines 50-53): sleep, the same call again.
UpdFetchError ==
    /\ fprog = "upd" /\ fpc = "request"
    /\ slept' = ErrorSleep
    /\ lastStatus' = "error" /\ sawError' = TRUE
    /\ UNCHANGED <<envVars, repVars, rebVars, cycVars, lockVars, fprog, fpc, flower, fupper,
                   fsince, fetched_games, retryAfter, omitted, sawThrottle>>

\* fetch_games_chunk: requests.get raises (lines 40-45): sleep, the same
\* call again.
UpdFetchRaises ==
    /\ fprog = "upd" /\ fpc = "request"
    /\ slept' = RequestErrorSleep
    /\ lastStatus' = "failed" /\ sawError' = TRUE
    /\ UNCHANGED <<envVars, repVars, rebVars, cycVars, lockVars, fprog, fpc, flower, fupper,
                   fsince, fetched_games, retryAfter, omitted, sawThrottle>>

\* A call of fetch_games(since, until) or fetch_all_games_range(lower_bound,
\* upper_bound) over any upstream history.
InitFetch ==
    /\ createdAt \in Histories
    /\ untilInclusive \in BOOLEAN
    /\ now = MaxTime
    /\ fprog \in {"app", "upd"}
    /\ flower \in Time
    /\ fupper \in (IF fprog = "app" THEN {NoUntil} ELSE {}) \cup Time \cup {MaxTime + 1}
    /\ fsince = flower
    /\ fpc = IF fprog = "upd" /\ ~(flower < fupper) THEN "done" ELSE "request"
    /\ fetched_games = <<>> /\ lastStatus = "none" /\ slept = 0
    /\ retryAfter = NoRetryAfter /\ omitted = {}
    /\ sawError = FALSE /\ sawThrottle = FALSE
    /\ CycOff /\ LockOff /\ RepOff /\ RebOff

NextFetch ==
    \/ AppFetch200 \/ AppFetch429 \/ AppFetchError \/ AppFetchRaises
    \/ UpdFetch200 \/ UpdFetchCut \/ UpdFetch429 \/ UpdFetchError \/ UpdFetchRaises

SpecFetch == InitFetch /\ [][NextFetch]_vars

\* --------------------------------------------- claims on the page loop
\* The upstream games with createdAt in [since, until) of the call.
Requested ==
    {g \in Ids : /\ createdAt[g] >= flower
                 /\ createdAt[g] <= now
                 /\ fupper = NoUntil \/ createdAt[g] < fupper}

\* What the call returns when every request is answered 200 at once.
Unthrottled ==
    IF fprog = "app" THEN fetch_games(flower, fupper, 0, 0).games
    ELSE fetch_all_games_range(flower, fupper, 0, 0, 0).games

\* C8: a fetch all of whose requests were answered successfully (after any
\* number of 429s) returns every upstream game with createdAt in
\* [since, until).
C8_FetchComplete ==
    (fpc = "done" /\ ~sawError) => Requested \subseteq Range(fetched_games)

\* C9: a request that fails other than by a 429 is repeated: the failure
\* never reaches the caller, and no fetch returns without the games of the
\* page that request asked for.
C9_FailuresRetried ==
    /\ fpc # "raised"
    /\ fpc = "done" => omitted \subseteq Range(fetched_games)

\* C10: after a 429 the fetcher sleeps at least Retry-After seconds (10
\* without the header), and a fetch whose requests were otherwise answered
\* successfully returns the games of a fetch that was never throttled.
C10_ThrottleHonoured ==
    /\ lastStatus = "429" =>
          slept >= (IF retryAfter = NoRetryAfter THEN DefaultRetryAfter
                                                 ELSE retryAfter)
    /\ (fpc = "done" /\ ~sawError) => fetched_games = Unthrottled

\* ============================================================== locking
\* Two app.py processes, each with its background_updater thread and its
\* request handlers, and two runs of updater.py on one host.  A cycle is
\* followed through its steps; what the steps compute is left out.
AppProcs == {"a1", "a2"}
UpdRuns == {"u1", "u2"}
Procs == AppProcs \cup UpdRuns
\* The steps of an update cycle.
InCycle == {"fetch", "merge", "recompute", "persist"}
StepAfter(step) ==
    CASE step = "fetch" -> "merge"
      [] step = "merge" -> "recompute"
      [] step = "recompute" -> "persist"
      [] step = "persist" -> "end"

\* An exception that leaves the try block without running a finally clause.
AfterRaiseNoFinally == "idle"
\* Where an exception raised inside the try block of update_leaderboard_func
\* continues: in its finally clause.
AfterRaise == "finally"

\* app.py: acquire_update_lock, flock(LOCK_EX | LOCK_NB) on a descriptor of
\* its own: the lock is got, or the iteration is skipped.
acquire_update_lock(p) ==
    /\ p \in AppProcs /\ pc[p] = "idle"
    /\ IF flockHolder = "none"
       THEN /\ flockHolder' = p
            /\ pc' = [pc EXCEPT ![p] = "try"]
            /\ UNCHANGED exitKind
       ELSE /\ exitKind' = [exitKind EXCEPT ![p] = "skipped"]
            /\ UNCHANGED <<flockHolder, pc>>
    /\ UNCHANGED <<envVars, repVars, rebVars, cycVars, fetVars, mutexHolder>>

\* app.py: `with leaderboard_lock:` is entered once no handler holds it.
EnterLeaderboardLock(p) ==
    /\ p \in AppProcs /\ pc[p] = "try"
    /\ mutexHolder[p] = "none"
    /\ mutexHolder' = [mutexHolder EXCEPT ![p] = "cycle"]
    /\ pc' = [pc EXCEPT ![p] = "fetch"]
    /\ UNCHANGED <<envVars, repVars, rebVars, cycVars, fetVars, flockHolder, exitKind>>

\* app.py: the cycle takes its next step; after the last one the with block
\* ends and the finally clause is next.
AppStep(p) ==
    /\ p \in AppProcs /\ pc[p] \in InCycle
    /\ IF StepAfter(pc[p]) = "end"
       THEN /\ pc' = [pc EXCEPT ![p] = "finally"]
            /\ mutexHolder' = [mutexHolder EXCEPT ![p] = "none"]
            /\ exitKind' = [exitKind EXCEPT ![p] = "ok"]
       ELSE /\ pc' = [pc EXCEPT ![p] = StepAfter(pc[p])]
            /\ UNCHANGED <<mutexHolder, exitKind>>
    /\ UNCHANGED <<envVars, repVars, rebVars, cycVars, fetVars, flockHolder>>

\* app.py: a step raises; the with block gives the mutex back.
AppRaise(p) ==
    /\ p \in AppProcs /\ pc[p] \in InCycle
    /\ pc' = [pc EXCEPT ![p] = AfterRaise]
    /\ mutexHolder' = [mutexHolder EXCEPT ![p] = "none"]
    /\ exitKind' = [exitKind EXCEPT ![p] = "exception"]
    /\ UNCHANGED <<envVars, repVars, rebVars, cycVars, fetVars, flockHolder>>

\* A loop without the except clause: what a cycle raises ends the thread.
UncaughtEndsThread(kind) == IF kind = "exception" THEN "stopped" ELSE "idle"
\* app.py: background_updater after a call of update_leaderboard_func that
\* ended as `kind`: an exception is caught and printed, and in every case
\* the loop sleeps UPDATE_INTERVAL and calls again.
background_updater(kind) == "idle"

\* app.py: release_update_lock in the finally clause; then the call returns
\* or raises into background_updater.
release_update_lock(p) ==
    /\ p \in AppProcs /\ pc[p] = "finally"
    /\ flockHolder' = IF flockHolder = p THEN "none" ELSE flockHolder
    /\ pc' = [pc EXCEPT ![p] = background_updater(exitKind[p])]
    /\ UNCHANGED <<envVars, repVars, rebVars, cycVars, fetVars, mutexHolder, exitKind>>

\* app.py: a request handler (index, api_leaderboard_route) reads the
\* leaderboard under leaderboard_lock.
RouteEnter(p) ==
    /\ p \in AppProcs /\ mutexHolder[p] = "none"
    /\ mutexHolder' = [mutexHolder EXCEPT ![p] = "route"]
    /\ UNCHANGED <<envVars, repVars, rebVars, cycVars, fetVars, pc, flockHolder, exitKind>>

RouteExit(p) ==
    /\ p \in AppProcs /\ mutexHolder[p] = "route"
    /\ mutexHolder' = [mutexHolder EXCEPT ![p] = "none"]
    /\ UNCHANGED <<envVars, repVars, rebVars, cycVars, fetVars, pc, flockHolder, exitKind>>

\* updater.py: update() starts; it takes no lock.
UpdStart(u) ==
    /\ u \in UpdRuns /\ pc[u] = "idle"
    /\ pc' = [pc EXCEPT ![u] = "fetch"]
    /\ UNCHANGED <<envVars, repVars, rebVars, cycVars, fetVars, flockHolder, mutexHolder, exitKind>>

\* updater.py: update() takes its next step, or returns after the last.
UpdStep(u) ==
    /\ u \in UpdRuns /\ pc[u] \in InCycle
    /\ IF StepAfter(pc[u]) = "end"
       THEN /\ pc' = [pc EXCEPT ![u] = "idle"]
            /\ exitKind' = [exitKind EXCEPT ![u] = "ok"]
       ELSE /\ pc' = [pc EXCEPT ![u] = StepAfter(pc[u])]
            /\ UNCHANGED exitKind
    /\ UNCHANGED <<envVars, repVars, rebVars, cycVars, fetVars, flockHolder, mutexHolder>>

\* updater.py: update() raises; __main__ logs the exception.
UpdRaise(u) ==
    /\ u \in UpdRuns /\ pc[u] \in InCycle
    /\ pc' = [pc EXCEPT ![u] = "idle"]
    /\ exitKind' = [exitKind EXCEPT ![u] = "exception"]
    /\ UNCHANGED <<envVars, repVars, rebVars, cycVars, fetVars, flockHolder, mutexHolder>>

InitLock ==
    /\ createdAt = [g \in Ids |-> RATING_START_TIMESTAMP]
    /\ untilInclusive = FALSE
    /\ now = RATING_START_TIMESTAMP
    /\ pc = [p \in Procs |-> "idle"]
    /\ flockHolder = "none"
    /\ mutexHolder = [p \in AppProcs |-> "none"]
    /\ exitKind = [p \in Procs |-> "none"]
    /\ CycOff /\ FetOff /\ RepOff /\ RebOff

NextLock ==
    \E p \in Procs :
        \/ acquire_update_lock(p) \/ EnterLeaderboardLock(p)
        \/ AppStep(p) \/ AppRaise(p) \/ release_update_lock(p)
        \/ RouteEnter(p) \/ RouteExit(p)
        \/ UpdStart(p) \/ UpdStep(p) \/ UpdRaise(p)

SpecLock == InitLock /\ [][NextLock]_vars

\* ------------------------------------------------- claims on the locking
\* The cycles that are inside their fetch/merge/recompute/persist steps.
Updating == {p \in Procs : pc[p] \in InCycle}

\* C5: at no time are two update cycles inside their fetch/merge/recompute/
\* persist steps.
C5_NoOverlap == Cardinality(Updating) <= 1

\* C6: a cycle that got the update lock holds it only until it exits, by
\* completion or by an exception: a thread between cycles never holds the
\* lock, so the lock is free whenever no cycle is running.
C6_LockReleased ==
    /\ \A p \in AppProcs : pc[p] = "idle" => flockHolder # p
    /\ (\A p \in AppProcs : pc[p] = "idle") => flockHolder = "none"
\* A cycle ended by an exception, and the same thread got the lock again.
C6_Witness ==
    \E p \in AppProcs :
        exitKind[p] = "exception" /\ pc[p] = "try" /\ flockHolder = p

\* ================================================= a cycle and the lock
\* app.py next to another process that takes and gives back update.lock:
\* a call of update_leaderboard_func from acquire_update_lock on.
\* acquire_update_lock that returns a lock file whoever holds the lock.
LockAcquiredAlways == TRUE
\* acquire_update_lock: flock(LOCK_EX | LOCK_NB) succeeds when no other
\* descriptor holds the lock.
LockAcquired == flockHolder = "none"

\* app.py: update_leaderboard_func as background_updater calls it: without
\* the lock it prints and returns, with it the cycle runs and the finally
\* clause gives the lock back.
UpdateCall ==
    IF LockAcquired
    THEN update_leaderboard_func
    ELSE /\ prog = "app"
         /\ lastOp' = "skipped"
         /\ UNCHANGED <<envVars, repVars, rebVars, prog, archive, lastFetch, archiveFile, lbFile,
                        new_games, added_count, fetchedEver, rated, fetVars, lockVars>>

\* Another process gets the lock for its own update.
OtherAcquires ==
    /\ flockHolder = "none"
    /\ flockHolder' = "other"
    /\ lastOp' = "other"
    /\ UNCHANGED <<envVars, repVars, rebVars, prog, archive, lastFetch, archiveFile, lbFile,
                   new_games, added_count, fetchedEver, rated, fetVars, pc,
                   mutexHolder, exitKind>>

OtherReleases ==
    /\ flockHolder = "other"
    /\ flockHolder' = "none"
    /\ lastOp' = "other"
    /\ UNCHANGED <<envVars, repVars, rebVars, prog, archive, lastFetch, archiveFile, lbFile,
                   new_games, added_count, fetchedEver, rated, fetVars, pc,
                   mutexHolder, exitKind>>

InitSkip ==
    /\ createdAt \in Histories
    /\ untilInclusive \in BOOLEAN
    /\ now = RATING_START_TIMESTAMP + REFETCH_DELAY
    /\ prog = "app"
    /\ archiveFile = AbsentArchive /\ lbFile = AbsentLeaderboard
    /\ archive = <<>>
    /\ lastFetch = load_leaderboard
    /\ new_games = <<>> /\ added_count = 0 /\ fetchedEver = {} /\ rated = {}
    /\ lastOp = "init"
    /\ FetOff /\ LockOff /\ RepOff /\ RebOff

NextSkip == UpdateCall \/ OtherAcquires \/ OtherReleases \/ Tick

SpecSkip == InitSkip /\ [][NextSkip]_vars

\* C11: a call of update_leaderboard_func made while another process holds
\* the update lock is a skip: it fetches nothing and leaves the Archive and
\* the checkpoint in memory and both files as they were.
C11_SkipChangesNothing ==
    [][(flockHolder = "other" /\ flockHolder' = "other" /\ lastOp' # "tick")
        => /\ lastOp' = "skipped"
           /\ UNCHANGED <<archive, lastFetch, archiveFile, lbFile, new_games,
                          added_count, fetchedEver, rated>>]_vars
\* A call was skipped by a process that has an Archive and a checkpoint.
C11_Witness ==
    /\ lastOp = "skipped" /\ flockHolder = "other"
    /\ archive # <<>> /\ lastFetch > 0 /\ lbFile.state = "ok"

\* ------------------------------------------- claims on files and reads
\* C13 (over Spec): a save that is cut short, by an exception or by the end
\* of the process, leaves neither the Archive file nor the Leaderboard file
\* as a partial JSON document.
C13_NoPartialFile ==
    archiveFile.state # "partial" /\ lbFile.state # "partial"

\* C14 (over SpecLock): while a cycle is in its fetch step (an HTTP request
\* or a retry sleep) it does not hold the mutex the request handlers take.
C14_FetchOutsideMutex ==
    \A p \in AppProcs : pc[p] = "fetch" => mutexHolder[p] # "cycle"

\* =============================================================== replay
\* The rating replay of both programs, one game a step, over games that
\* arrive in ascending createdAt order from the rating start on.  Ratings
\* are in thousandths of a point, scores in thousandths; every game has the
\* reference time control "180+2", for which model1 is 0.
\* MALUS_INTERVAL (30 days in ms), scaled.
MALUS_INTERVAL == 2
\* thresholds = [30, 150] of k_tresh, 30 and 150 of k_thresh, scaled.
KThresholdLow == 1
KThresholdHigh == 2
\* Number of games a replay goes through.
MaxReplayed == 3
\* updater.py's rating constants.
BOT_BASE_RATING == 2650
BLACK_PENALTY == 200
INITIAL_PLAYER_RATING == 1800

Pts(n) == 1000 * n
Players == {"alice", "bob"}
\* players[colour]["rating"] of the game record.
HeaderRatings == {1750, 1800, 1999, 2000, 2200}
\* The header rating is read for every game and used for a new player only.
HeadersFor(new) == IF new THEN HeaderRatings ELSE {0}
\* winner and status of a game record; a record without `winner` is a draw
\* by agreement or a stalemate.
Outcomes == {<<"white", "mate">>, <<"black", "mate">>,
             <<"none", "draw">>, <<"none", "stalemate">>}

\* escore: 1 / (1 + 10 ** (elo / 400)) in thousandths, tabulated at the
\* lower edge of every 100 points of elo.
EscoreTable == <<500, 360, 240, 151, 91, 53, 31, 17, 10, 6, 3, 2, 1>>
escore(elo) ==
    LET band == elo \div Pts(100)
    IN  IF band >= Len(EscoreTable) THEN 0
        ELSE IF band >= 0 THEN EscoreTable[band + 1]
        ELSE IF -band > Len(EscoreTable) THEN 1000
        ELSE 1000 - EscoreTable[-band]

\* app.py: k_tresh.
k_tresh(games_played) ==
    IF games_played <= KThresholdLow THEN 40
    ELSE IF games_played <= KThresholdHigh THEN 20
    ELSE 10

\* updater.py: k_thresh.
k_thresh(games) ==
    IF games < KThresholdLow THEN 40
    ELSE IF games < KThresholdHigh THEN 20
    ELSE 10

\* K_factor of the game: halved for a score of 0.5.
KFactor(K, r) == IF r = 500 THEN K \div 2 ELSE K

\* app.py: starting_rating of a player who is not in the table yet.
StartingRating(header_rating) ==
    IF header_rating >= 2000 THEN Pts(1800)
    ELSE IF header_rating >= 1800 THEN Pts(header_rating - 200)
    ELSE Pts(1600)

\* app.py: r of a game.
AppResult(status, winner, player_color) ==
    IF status = "draw" THEN 500
    ELSE IF winner = player_color THEN 1000
    ELSE 0

\* updater.py: result of a game.
UpdResult(winner, human_color) ==
    IF winner = "none" THEN 500
    ELSE IF winner = human_color THEN 1000
    ELSE 0

\* A rating update that is not floored.
UnflooredRating(rating) == rating
\* max(1600, new_rating) of both programs.
FlooredRating(rating) == Max(Pts(1600), rating)

\* The rating after a game: rating + (r - escore(bot - rating)) * K.
NewRating(rating, bot_elo_adjusted, r, K_factor) ==
    FlooredRating(rating + (r - escore(bot_elo_adjusted - rating)) * K_factor)

\* updater.py: the test that applies the malus, with > in place of >=.
MalusDueLater(ts, date) == ts - date > MALUS_INTERVAL
\* updater.py: g["createdAt"] - malus_date >= MALUS_INTERVAL.
MalusDue(ts, date) == ts - date >= MALUS_INTERVAL

\* updater.py: inactivity_malus; no record of the replay has a BOT key.
inactivity_malus(lead) ==
    [p \in DOMAIN lead |->
        [lead[p] EXCEPT !.rating = IF @ - Pts(10) < Pts(1600) THEN Pts(1600)
                                   ELSE @ - Pts(10)]]

\* The table with the record of one player set.
WithPlayer(table, player, record) ==
    [q \in DOMAIN table \cup {player} |->
        IF q = player THEN record ELSE table[q]]

\* The time control every game of SpecReplay has: no adjustment.
ReferenceTc == "180+2"
\* app.py: the TimeControl tag of the PGN; "unknown" is what
\* extract_tag_from_pgn returns without a tag or a PGN, "-" a tag that is no
\* time control.
AppTimeControls == {"unknown", "-", "180+2", "60+0", "0+0"}
\* updater.py: the clock of a game record, written as the tc_str update()
\* formats from it; "absent" is a record without clock, "None+2" a clock
\* whose initial is null.
UpdTimeControls == {"absent", "180+2", "60+0", "0+0", "None+2"}

\* timecontrol.split('+') and int() of both parts: <<t, inc>>, or <<>> where
\* they raise.
ParseTc(tc) ==
    CASE tc = "180+2" -> <<180, 2>>
      [] tc = "60+0" -> <<60, 0>>
      [] tc = "0+0" -> <<0, 0>>
      [] OTHER -> <<>>
\* math.log is defined on t + math.log(1 + inc) * b1.
LogDefined(parts) == parts[1] > 0 \/ parts[2] > 0
\* math.log(t + math.log(1 + inc) * b1) * b2 - normalized_32, in thousandths.
Model1Value(parts) ==
    CASE parts = <<180, 2>> -> 0
      [] parts = <<60, 0>> -> -445216

\* app.py: adjust2 = model1; only split and int are inside its try.
adjust2(tc) ==
    LET parts == ParseTc(tc)
    IN  IF parts = <<>> THEN [raised |-> FALSE, value |-> 0]
        ELSE IF ~LogDefined(parts) THEN [raised |-> TRUE, value |-> 0]
        ELSE [raised |-> FALSE, value |-> Model1Value(parts)]

\* updater.py: model1; every exception inside it returns 0.
model1(timecontrol) ==
    LET parts == ParseTc(timecontrol)
    IN  IF parts = <<>> \/ ~LogDefined(parts) THEN 0
        ELSE Model1Value(parts)

\* The malus taken once for every whole MALUS_INTERVAL since malus_date.
RECURSIVE ApplyMalusPerInterval(_, _, _)
ApplyMalusPerInterval(lead, ts, date) ==
    IF ts - date >= MALUS_INTERVAL
    THEN ApplyMalusPerInterval(inactivity_malus(lead), ts, date + MALUS_INTERVAL)
    ELSE lead
\* updater.py lines 220-221: the table after the malus test of a game.
ApplyMalus(lead, ts, date) ==
    IF MalusDue(ts, date) THEN inactivity_malus(lead) ELSE lead

NoGame ==
    [ts |-> 0, player |-> "none", human_color |-> "none", winner |-> "none",
     status |-> "none", header_rating |-> 0, new |-> FALSE, n |-> 0,
     K |-> 0, r |-> 0, before |-> 0, malus |-> FALSE,
     date |-> 0, tc |-> "none", adjust |-> 0, raised |-> FALSE]

\* app.py: one pass of the loop over filtered_games (lines 308-395) for a
\* game with the given fields; `tag` is the TimeControl tag of its PGN.  An
\* exception of adjust(tc) leaves the loop before the table is touched.
AppGame(ts, player, player_color, outcome, header_rating, tag) ==
    LET tc == IF tag = "unknown" THEN "180+2" ELSE tag
        adjust == adjust2(tc)
        bot_elo_adjusted == IF player_color = "white"
                            THEN Pts(2650) - adjust.value - Pts(200)
                            ELSE Pts(2650) - adjust.value
        new == player \notin DOMAIN players
        record == IF new THEN [rating |-> StartingRating(header_rating),
                               games |-> 0, tc_values |-> <<>>]
                  ELSE players[player]
        r == AppResult(outcome[2], outcome[1], player_color)
        K_factor == KFactor(k_tresh(record.games), r)
    IN  /\ players' =
              IF adjust.raised THEN players
              ELSE WithPlayer(players, player,
                  [rating |-> NewRating(record.rating, bot_elo_adjusted, r, K_factor),
                   games |-> record.games + 1,
                   tc_values |-> IF ParseTc(tc) # <<>>
                                 THEN Append(record.tc_values, tc)
                                 ELSE record.tc_values])
        /\ lastTs' = ts
        /\ game' = [ts |-> ts, player |-> player, human_color |-> player_color,
                    winner |-> outcome[1], status |-> outcome[2],
                    header_rating |-> header_rating, new |-> new,
                    n |-> record.games + 1, K |-> K_factor, r |-> r,
                    before |-> record.rating, malus |-> FALSE, date |-> 0,
                    tc |-> tag, adjust |-> adjust.value, raised |-> adjust.raised]

\* updater.py: one pass of the loop over the sorted archive (lines 216-273)
\* for a game with the given fields; `clock` is its clock as tc_str.
UpdGame(ts, player, human_color, outcome, header_rating, clock) ==
    LET table == ApplyMalus(players, ts, malus_date)
        tc_str == IF clock = "absent" THEN "180+2" ELSE clock
        effective_bot_rating ==
            (IF human_color = "white"
             THEN Pts(BOT_BASE_RATING) - Pts(BLACK_PENALTY)
             ELSE Pts(BOT_BASE_RATING)) - model1(tc_str)
        new == player \notin DOMAIN table
        record == IF new THEN [rating |-> Pts(INITIAL_PLAYER_RATING),
                               W |-> 0, D |-> 0, L |-> 0, tc_values |-> <<>>]
                  ELSE table[player]
        result == UpdResult(outcome[1], human_color)
        total_games == record.W + record.D + record.L
        Kfactor == KFactor(k_thresh(total_games), result)
    IN  /\ players' = WithPlayer(table, player,
              [rating |-> NewRating(record.rating, effective_bot_rating,
                                    result, Kfactor),
               W |-> record.W + (IF result = 1000 THEN 1 ELSE 0),
               D |-> record.D + (IF result = 500 THEN 1 ELSE 0),
               L |-> record.L + (IF result = 0 THEN 1 ELSE 0),
               tc_values |-> Append(record.tc_values, tc_str)])
        /\ malus_date' = IF MalusDue(ts, malus_date) THEN ts ELSE malus_date
        /\ lastTs' = ts
        /\ game' = [ts |-> ts, player |-> player, human_color |-> human_color,
                    winner |-> outcome[1], status |-> outcome[2],
                    header_rating |-> header_rating, new |-> new,
                    n |-> total_games + 1, K |-> Kfactor, r |-> result,
                    before |-> record.rating,
                    malus |-> MalusDue(ts, malus_date), date |-> malus_date,
                    tc |-> clock, adjust |-> model1(tc_str), raised |-> FALSE]

\* The replay does not look at the names: the first player it meets is
\* called alice.
Met(table) == IF DOMAIN table = {} THEN {"alice"} ELSE Players
\* The instants at which the games of a replay are created: the rating
\* start, the instant before one malus interval is over, the instant it is
\* over, and two intervals after the start.
ReplayTimes ==
    {RATING_START_TIMESTAMP,
     RATING_START_TIMESTAMP + MALUS_INTERVAL - 1,
     RATING_START_TIMESTAMP + MALUS_INTERVAL,
     RATING_START_TIMESTAMP + 2 * MALUS_INTERVAL}

\* app.py: the replay takes its next game.
ReplayApp ==
    /\ rprog = "app" /\ replayed < MaxReplayed
    /\ \E ts \in {t \in ReplayTimes : t >= lastTs}, player \in Met(players),
          player_color \in {"white", "black"}, outcome \in Outcomes :
       \E header_rating \in HeadersFor(player \notin DOMAIN players) :
           AppGame(ts, player, player_color, outcome, header_rating, ReferenceTc)
    /\ replayed' = replayed + 1
    /\ UNCHANGED <<envVars, cycVars, fetVars, lockVars, rebVars, rprog, malus_date,
                   appearance, ended, lbOut>>

\* updater.py: the replay takes its next game.
ReplayUpd ==
    /\ rprog = "upd" /\ replayed < MaxReplayed
    /\ \E ts \in {t \in ReplayTimes : t >= lastTs}, player \in Met(players),
          human_color \in {"white", "black"}, outcome \in Outcomes :
       \E header_rating \in HeadersFor(player \notin DOMAIN players) :
           UpdGame(ts, player, human_color, outcome, header_rating, ReferenceTc)
    /\ replayed' = replayed + 1
    /\ UNCHANGED <<envVars, cycVars, fetVars, lockVars, rebVars, rprog,
                   appearance, ended, lbOut>>

InitReplay ==
    /\ createdAt = [g \in Ids |-> RATING_START_TIMESTAMP]
    /\ untilInclusive = FALSE
    /\ now = MaxTime
    /\ rprog \in {"app", "upd"}
    /\ players = <<>>
    /\ malus_date = RATING_START_TIMESTAMP
    /\ lastTs = RATING_START_TIMESTAMP
    /\ replayed = 0
    /\ game = NoGame
    /\ appearance = <<>> /\ ended = "no" /\ lbOut = <<>>
    /\ CycOff /\ FetOff /\ LockOff /\ RebOff

NextReplay == ReplayApp \/ ReplayUpd

SpecReplay == InitReplay /\ [][NextReplay]_vars

\* ------------------------------------------------- claims on the replay
\* C15: at every point of the replay, after seeding, after a game's update
\* and after an inactivity malus, every rating is at least 1600.
C15_RatingFloor ==
    /\ \A p \in DOMAIN players : players[p].rating >= Pts(1600)
    /\ replayed > 0 => game.before >= Pts(1600)
\* A player at 1600 lost a game and stayed at 1600.
C15_Witness ==
    /\ replayed > 0 /\ game.r = 0 /\ game.before = Pts(1600)
    /\ players[game.player].rating = Pts(1600)

\* C16: the n-th game of a player uses K = 40 up to the low threshold (30),
\* 20 up to the high threshold (150) and 10 after it; a game scored 0.5 uses
\* half of that.
C16_KFactor ==
    replayed > 0 =>
        LET full == IF game.n <= KThresholdLow THEN 40
                    ELSE IF game.n <= KThresholdHigh THEN 20
                    ELSE 10
        IN  game.K = IF game.r = 500 THEN full \div 2 ELSE full

\* C17: the score is 1.0 when the winner is the human's colour, 0.0 when it
\* is the bot's colour and 0.5 when the record has no winner, whatever its
\* status.
C17_Score ==
    replayed > 0 =>
        game.r = IF game.winner = "none" THEN 500
                 ELSE IF game.winner = game.human_color THEN 1000
                 ELSE 0

\* C18: the rating of a player before their first game is 1800 for a header
\* rating of 2000 or more, header - 200 from 1800 on, and 1600 below.
C18_Seed ==
    (replayed > 0 /\ game.new) =>
        game.before = IF game.header_rating >= 2000 THEN Pts(1800)
                      ELSE IF game.header_rating >= 1800
                           THEN Pts(game.header_rating - 200)
                      ELSE Pts(1600)

\* C19: in update()'s replay a game created exactly MALUS_INTERVAL after
\* malus_date takes 10 points, floored at 1600, once from every player in the
\* table before its own update is computed; an earlier game takes nothing.
C19_MalusAtBoundary ==
    [][(rprog = "upd" /\ replayed' = replayed + 1) =>
        LET p == game'.player
            bot == IF game'.human_color = "white"
                   THEN Pts(BOT_BASE_RATING) - Pts(BLACK_PENALTY)
                   ELSE Pts(BOT_BASE_RATING)
            Reduced(rating) == Max(Pts(1600), rating - Pts(10))
        IN  /\ game'.ts - malus_date = MALUS_INTERVAL =>
                /\ game'.malus
                /\ \A q \in DOMAIN players \ {p} :
                       players'[q].rating = Reduced(players[q].rating)
                /\ p \in DOMAIN players =>
                       game'.before = Reduced(players[p].rating)
            /\ game'.ts - malus_date < MALUS_INTERVAL =>
                /\ ~game'.malus
                /\ \A q \in DOMAIN players \ {p} :
                       players'[q].rating = players[q].rating
                /\ p \in DOMAIN players => game'.before = players[p].rating
            /\ players'[p].rating =
                   Max(Pts(1600), game'.before
                       + (game'.r - escore(bot - game'.before)) * game'.K)]_vars
\* The game at the boundary was another player's, and a player who had won
\* one game (1800 and nearly 40 points) lost 10 points by it.
C19_Witness ==
    /\ rprog = "upd" /\ replayed > 0 /\ game.malus
    /\ game.ts = RATING_START_TIMESTAMP + MALUS_INTERVAL
    /\ \E q \in DOMAIN players :
           /\ q # game.player
           /\ players[q].rating > Pts(1820) /\ players[q].rating < Pts(1830)

\* C28 (over SpecReplay): in update()'s replay a game takes the malus at
\* most once, also when two or more MALUS_INTERVALs have passed since
\* malus_date; malus_date then becomes the createdAt of that game and is
\* left alone otherwise, so that a malus comes at least MALUS_INTERVAL of
\* game time after the one before.
C28_OneMalusPerGame ==
    [][(rprog = "upd" /\ replayed' = replayed + 1) =>
        LET p == game'.player
            Reduced(rating) == Max(Pts(1600), rating - Pts(10))
        IN  /\ game'.malus =>
                /\ malus_date' = game'.ts
                /\ game'.ts - malus_date >= MALUS_INTERVAL
            /\ ~game'.malus => malus_date' = malus_date
            /\ game'.ts - malus_date >= 2 * MALUS_INTERVAL =>
                /\ game'.malus
                /\ \A q \in DOMAIN players \ {p} :
                       players'[q].rating = Reduced(players[q].rating)
                /\ p \in DOMAIN players =>
                       game'.before = Reduced(players[p].rating)
            /\ \A q \in DOMAIN players \ {p} :
                   players[q].rating - players'[q].rating <= Pts(10)]_vars
\* Two malus intervals after malus_date another player's game took 10 points
\* once from a player who had won one game.
C28_Witness ==
    /\ rprog = "upd" /\ replayed = 2 /\ game.malus
    /\ game.ts - game.date = 2 * MALUS_INTERVAL
    /\ malus_date = game.ts
    /\ \E q \in DOMAIN players :
           /\ q # game.player
           /\ players[q].rating > Pts(1820) /\ players[q].rating < Pts(1830)

\* ============================================================== rebuild
\* The rebuild of the player records from the Archive, one cycle a step.
\* A player's record is kept as the games that were applied to it, in the
\* order of their application: what a record holds is a function of that
\* sequence.  Games may be older than the rating start and arrive in the
\* Archive in any order; the first game is alice's, the players being
\* interchangeable.
RebuildTimes == (RATING_START_TIMESTAMP - 1)..(RATING_START_TIMESTAMP + 1)
\* The games are numbered in the order of their creation; they reach the
\* Archive in any order.
RebuildHistories ==
    {c \in [Ids -> RebuildTimes] : \A g, h \in Ids : g <= h => c[g] <= c[h]}

\* The sequences of distinct games out of S.
RECURSIVE Arrivals(_)
Arrivals(S) ==
    {<<>>} \cup UNION {{<<g>> \o rest : rest \in Arrivals(S \ {g})} : g \in S}

\* sort(key=createdAt): the list as it is.
Unsorted(seq) == seq

\* sorted(..., key=lambda g: g["createdAt"]) / list.sort: ascending, games
\* of one createdAt in the order of the list.
RECURSIVE InsertByCreatedAt(_, _)
InsertByCreatedAt(sorted, g) ==
    IF sorted = <<>> THEN <<g>>
    ELSE IF createdAt[sorted[Len(sorted)]] <= createdAt[g]
         THEN Append(sorted, g)
         ELSE Append(InsertByCreatedAt(SubSeq(sorted, 1, Len(sorted) - 1), g),
                     sorted[Len(sorted)])

RECURSIVE SortedPrefix(_, _)
SortedPrefix(seq, n) ==
    IF n = 0 THEN <<>>
    ELSE InsertByCreatedAt(SortedPrefix(seq, n - 1), seq[n])

SortedByCreatedAt(seq) == SortedPrefix(seq, Len(seq))

\* app.py lines 305-306, updater.py lines 216-218: the games of the replay.
FilteredGames(archive_games) ==
    SortedByCreatedAt(SelectSeq(archive_games,
        LAMBDA g : createdAt[g] >= RATING_START_TIMESTAMP))

\* The replay loop: every game is applied to the record of its human player.
RECURSIVE ReplayGames(_, _)
ReplayGames(order, table) ==
    IF order = <<>> THEN table
    ELSE LET g == Head(order)
             record == IF human[g] \in DOMAIN table THEN table[human[g]]
                       ELSE <<>>
         IN  ReplayGames(Tail(order),
                         WithPlayer(table, human[g], Append(record, g)))

EmptyTable == [q \in {} |-> <<>>]

\* updater.py: leaderboard.update(players) on the loaded leaderboard.
DictUpdate(loaded, table) ==
    [q \in DOMAIN loaded \cup DOMAIN table |->
        IF q \in DOMAIN table THEN table[q] ELSE loaded[q]]

\* app.py: a cycle merges a batch, replays the Archive into new_leaderboard
\* and makes it the leaderboard (lines 281-288, 303-420).
RebuildApp ==
    /\ bprog = "app"
    /\ \E batch \in Arrivals(Ids \ Range(storedGames)) :
       \E merged \in {storedGames \o batch} :
       \E order \in {FilteredGames(merged)} :
            /\ archiveGames' = merged
            /\ storedGames' = merged
            /\ filtered_games' = order
            /\ leaderboard' = ReplayGames(order, EmptyTable)
    /\ UNCHANGED <<envVars, cycVars, fetVars, lockVars, repVars, bprog, human>>

\* updater.py: a run of update() loads both files, merges a batch, saves
\* the archive (atomic_save_json may fail and only log), replays it into
\* players and updates the loaded leaderboard with them (lines 161-286).
RebuildUpd ==
    /\ bprog = "upd"
    /\ \E batch \in Arrivals(Ids \ Range(storedGames)), archive_saved \in BOOLEAN :
       \E merged \in {storedGames \o batch} :
       \E order \in {FilteredGames(merged)} :
            /\ archiveGames' = merged
            /\ storedGames' = atomic_save_json(storedGames, merged, archive_saved)
            /\ filtered_games' = order
            /\ leaderboard' = DictUpdate(leaderboard,
                                         ReplayGames(order, EmptyTable))
    /\ UNCHANGED <<envVars, cycVars, fetVars, lockVars, repVars, bprog, human>>

InitRebuild ==
    /\ createdAt \in RebuildHistories
    /\ untilInclusive = FALSE
    /\ now = MaxTime
    /\ bprog \in {"app", "upd"}
    /\ human \in {h \in [Ids -> Players] : h[1] = "alice"}
    /\ storedGames = <<>> /\ archiveGames = <<>> /\ filtered_games = <<>>
    /\ leaderboard = EmptyTable
    /\ CycOff /\ FetOff /\ LockOff /\ RepOff

NextRebuild == RebuildApp \/ RebuildUpd

SpecRebuild == InitRebuild /\ [][NextRebuild]_vars

\* ------------------------------------------------ claims on the rebuild
\* The records a replay of the Archive of the last cycle produces.
Rebuilt == ReplayGames(FilteredGames(archiveGames), EmptyTable)

\* C12: the player records a cycle leaves are those the replay of its
\* Archive produces: the same players with the same records, and none of a
\* leaderboard loaded before.
C12_RecordsFromArchive ==
    /\ DOMAIN leaderboard = DOMAIN Rebuilt
    /\ \A q \in DOMAIN leaderboard : leaderboard[q] = Rebuilt[q]

\* C20: the replay goes through the games of the Archive from the rating
\* start on, each once, in ascending createdAt order, whatever the order of
\* the Archive; an older game is in no record.
C20_ReplayAscending ==
    /\ \A i, j \in 1..Len(filtered_games) :
           i < j => createdAt[filtered_games[i]] <= createdAt[filtered_games[j]]
    /\ NoDup(filtered_games)
    /\ Range(filtered_games) =
           {g \in Range(archiveGames) : createdAt[g] >= RATING_START_TIMESTAMP}
    /\ bprog = "app" =>
           \A q \in DOMAIN leaderboard :
               leaderboard[q] = SelectSeq(filtered_games, LAMBDA g : human[g] = q)
\* The Archive holds a later game before an earlier one and a game older
\* than the rating start, and was replayed.
C20_Witness ==
    /\ \E i, j \in 1..Len(archiveGames) :
           /\ i < j /\ createdAt[archiveGames[i]] > createdAt[archiveGames[j]]
           /\ createdAt[archiveGames[j]] >= RATING_START_TIMESTAMP
    /\ \E g \in Range(archiveGames) : createdAt[g] < RATING_START_TIMESTAMP
    /\ Len(filtered_games) >= 2

\* ------------------------------------- further claims on the page loop
\* C21 (over SpecFetch): a page of fetch_games with fewer than max games,
\* empty or not, ends the call: the result is the pages received so far with
\* that page, and no request follows.
C21_ShortPageStops ==
    [][/\ (fprog = "app" /\ fpc = "request" /\ lastStatus' = "200"
           /\ Len(Page(fsince, fupper)) < PageSize)
          => /\ fpc' = "done"
             /\ fetched_games' = fetched_games \o Page(fsince, fupper)
       /\ (fprog = "app" /\ fpc = "done")
          => (fpc' = "done" /\ fetched_games' = fetched_games)]_vars
\* A full page was followed by a short one, and the call ended with both.
C21_Witness ==
    /\ fprog = "app" /\ fpc = "done" /\ lastStatus = "200" /\ ~sawError
    /\ Len(fetched_games) = PageSize + 1

\* ------------------------------------------ the Archive is append-only
IsPrefix(a, b) == Len(a) <= Len(b) /\ SubSeq(b, 1, Len(a)) = a

\* C22 (over Spec): a cycle removes, reorders and modifies no entry of the
\* Archive: the Archive it starts from is a prefix of the Archive it leaves
\* in memory, and the persisted Archive before it is a prefix of the
\* persisted Archive after it.
C22_ArchiveAppendOnly ==
    [][CycleStep => /\ IsPrefix(ArchiveBefore, archive')
                    /\ IsPrefix(PersistedArchive, PersistedArchive')]_vars

\* --------------------------------------------- the cold-start backfill
\* The windows <<since, until>> the cold start of update_leaderboard_func
\* requests, in order (lines 265-274).
RECURSIVE ColdStartChunks(_)
ColdStartChunks(start_ts) ==
    IF start_ts > now THEN <<>>
    ELSE LET chunk_end == Min(start_ts + CHUNK_SIZE - 1, now)
         IN  <<<<start_ts, chunk_end>>>> \o ColdStartChunks(chunk_end + 1)

\* The chunks that hold instant t when a chunk is the half-open window
\* [since, until).
ChunksHolding(chunks, t) ==
    {i \in DOMAIN chunks : chunks[i][1] <= t /\ t < chunks[i][2]}

\* C23 (over Spec): before a cold start of app.py (last_fetch = 0) every
\* instant from the rating start up to now lies in exactly one of the chunks
\* the backfill will request, read as half-open windows, and no chunk is
\* longer than CHUNK_SIZE.
C23_ChunksPartitionWindow ==
    (prog = "app" /\ lastFetch = 0)
    => LET chunks == ColdStartChunks(RATING_START_TIMESTAMP)
       IN  /\ \A i \in DOMAIN chunks : chunks[i][2] - chunks[i][1] <= CHUNK_SIZE
           /\ \A t \in RATING_START_TIMESTAMP..(now - 1) :
                  Cardinality(ChunksHolding(chunks, t)) = 1

\* --------------------------------------------- the background updater
\* The update thread of every app.py process keeps running: a thread in its
\* finally clause gets to release the lock.
SpecSched == SpecLock /\ \A p \in AppProcs : WF_vars(release_update_lock(p))

\* C25 (over SpecSched): the background updater never stops scheduling: a
\* cycle that leaves through its finally clause, raised or not, is followed
\* by the loop being back at its call, an iteration skipped on lock
\* contention leaves the loop at its call, and a loop at its call can always
\* attempt the next cycle.
C25_NeverStopsScheduling ==
    /\ \A p \in AppProcs : (pc[p] = "finally") ~> (pc[p] = "idle")
    /\ [][\A p \in AppProcs :
              (exitKind[p] # "skipped" /\ exitKind'[p] = "skipped")
              => pc'[p] = "idle"]_vars
    /\ [](\A p \in AppProcs : pc[p] = "idle" => ENABLED acquire_update_lock(p))
\* One thread is back at its call after a cycle that raised, another after
\* an iteration it skipped.
C25_Witness ==
    \E p, q \in AppProcs :
        /\ pc[p] = "idle" /\ exitKind[p] = "exception"
        /\ pc[q] = "idle" /\ exitKind[q] = "skipped"

\* ------------------------------- app.py: the state in memory after an abort
\* C27 (over Spec): whatever way a cycle of app.py ends after the merge, the
\* checkpoint in memory has advanced only if the player records in memory
\* were computed from an Archive that holds every game fetched into the
\* Archive in memory with createdAt up to that checkpoint.
C27_CheckpointMatchesRecords ==
    [][(prog = "app" /\ CycleStep /\ lastFetch' > lastFetch)
       => \A g \in Range(archive') : createdAt[g] <= lastFetch' => g \in rated']_vars

\* ============================================== the end of the replay
\* Number of games of a cycle that is followed to its end.
MaxFinishGames == 2
\* Display names of human opponents; "metadata" is a valid user name.
FinishPlayers == {"alice", "bob", "metadata"}

\* sorted(..., key=rating, reverse=True): descending, the items of one
\* rating in the order of the input.
RECURSIVE InsertByRating(_, _, _)
InsertByRating(sorted, p, table) ==
    IF sorted = <<>> THEN <<p>>
    ELSE IF table[sorted[Len(sorted)]].rating >= table[p].rating
         THEN Append(sorted, p)
         ELSE Append(InsertByRating(SubSeq(sorted, 1, Len(sorted) - 1), p, table),
                     sorted[Len(sorted)])

RECURSIVE SortedByRating(_, _)
SortedByRating(keys, table) ==
    IF keys = <<>> THEN <<>>
    ELSE InsertByRating(SortedByRating(SubSeq(keys, 1, Len(keys) - 1), table),
                        keys[Len(keys)], table)

\* A dict as the sequence of its items; of a player record the rating is
\* kept, of the metadata block that it is one.
RecordItem(p, table) == [key |-> p, kind |-> "record", rating |-> table[p].rating]
MetadataItem == [key |-> "metadata", kind |-> "metadata", rating |-> 0]
\* d[key] = value: a key the dict has keeps its place.
SetItem(dict, item) ==
    IF \E i \in DOMAIN dict : dict[i].key = item.key
    THEN [i \in DOMAIN dict |-> IF dict[i].key = item.key THEN item ELSE dict[i]]
    ELSE Append(dict, item)
\* dict.update(table): one assignment per key of the table, in its order.
RECURSIVE UpdateItems(_, _, _)
UpdateItems(dict, keys, table) ==
    IF keys = <<>> THEN dict
    ELSE UpdateItems(SetItem(dict, RecordItem(Head(keys), table)), Tail(keys), table)

\* app.py: a cycle's replay takes its next game.
GameApp ==
    /\ rprog = "app" /\ ended = "no" /\ replayed < MaxFinishGames
    /\ \E player \in FinishPlayers, player_color \in {"white", "black"},
          outcome \in Outcomes, tag \in AppTimeControls :
        /\ AppGame(lastTs, player, player_color, outcome, 2200, tag)
        /\ appearance' = IF game'.new /\ ~game'.raised
                         THEN Append(appearance, player) ELSE appearance
        /\ ended' = IF game'.raised THEN "raised" ELSE "no"
    /\ replayed' = replayed + 1
    /\ UNCHANGED <<envVars, cycVars, fetVars, lockVars, rebVars, rprog, malus_date,
                   lbOut>>

\* updater.py: a run's replay takes its next game.
GameUpd ==
    /\ rprog = "upd" /\ ended = "no" /\ replayed < MaxFinishGames
    /\ \E player \in FinishPlayers, human_color \in {"white", "black"},
          outcome \in Outcomes, clock \in UpdTimeControls :
        /\ UpdGame(lastTs, player, human_color, outcome, 2200, clock)
        /\ appearance' = IF game'.new THEN Append(appearance, player)
                         ELSE appearance
    /\ replayed' = replayed + 1
    /\ UNCHANGED <<envVars, cycVars, fetVars, lockVars, rebVars, rprog, ended, lbOut>>

\* app.py lines 397-420: the averages, the sort, the metadata entry and the
\* save (that succeeds).
FinishApp ==
    /\ rprog = "app" /\ ended = "no"
    /\ LET sorted == SortedByRating(appearance, players)
           sorted_lb == [i \in DOMAIN sorted |-> RecordItem(sorted[i], players)]
       IN  lbOut' = SetItem(sorted_lb, MetadataItem)
    /\ ended' = "saved"
    /\ UNCHANGED <<envVars, cycVars, fetVars, lockVars, rebVars, rprog, players,
                   malus_date, lastTs, replayed, game, appearance>>

\* updater.py lines 275-286: the averages (sum raises on a base that is no
\* number), leaderboard.update(players) on the loaded leaderboard of a first
\* run, and the save (that succeeds).
FinishUpd ==
    /\ rprog = "upd" /\ ended = "no"
    /\ IF \E p \in DOMAIN players : \E i \in DOMAIN players[p].tc_values :
              ParseTc(players[p].tc_values[i]) = <<>>
       THEN /\ ended' = "raised"
            /\ UNCHANGED lbOut
       ELSE /\ ended' = "saved"
            /\ lbOut' = UpdateItems(<<MetadataItem>>, appearance, players)
    /\ UNCHANGED <<envVars, cycVars, fetVars, lockVars, rebVars, rprog, players,
                   malus_date, lastTs, replayed, game, appearance>>

InitFinish == InitReplay

NextFinish == GameApp \/ GameUpd \/ FinishApp \/ FinishUpd

SpecFinish == InitFinish /\ [][NextFinish]_vars

\* ------------------------------------- claims on the end of the replay
\* The player records of the saved leaderboard, in its order.
SavedRecords == SelectSeq(lbOut, LAMBDA item : item.kind = "record")
\* The place of a player in the order of first appearance.
FirstAppearance(p) == CHOOSE i \in DOMAIN appearance : appearance[i] = p

\* C24 (over SpecFinish): the leaderboard a cycle saves lists its players by
\* descending rating, players of one rating in the order of their first
\* appearance in the replay.
C24_DescendingByRating ==
    ended = "saved" =>
        \A i, j \in DOMAIN SavedRecords :
            i < j => \/ SavedRecords[i].rating > SavedRecords[j].rating
                     \/ /\ SavedRecords[i].rating = SavedRecords[j].rating
                        /\ FirstAppearance(SavedRecords[i].key)
                               < FirstAppearance(SavedRecords[j].key)

\* C26 (over SpecFinish): a game without time control, or with one that does
\* not parse, is rated with adjustment 0 and raises nothing, and the cycle
\* is not ended by an exception unless a game raised one.
C26_TimeControlFallback ==
    /\ game.tc \in {"unknown", "-", "absent", "None+2"}
           => (~game.raised /\ game.adjust = 0)
    /\ ended = "raised" => game.raised

\* C29 (over SpecFinish): in the leaderboard a cycle saves the entry
\* `metadata` is the metadata block, and every player of the replay has a
\* player record under their name.
C29_MetadataAndRecords ==
    ended = "saved" =>
        /\ \E i \in DOMAIN lbOut :
               lbOut[i].key = "metadata" /\ lbOut[i].kind = "metadata"
        /\ \A p \in DOMAIN players :
               \E i \in DOMAIN lbOut :
                   lbOut[i].key = p /\ lbOut[i].kind = "record"

====
